---- MODULE Spec2Model ----
(***************************************************************************)
(* ezpub: the EPUB parse pipeline (container.xml -> OPF package document   *)
(* -> nav-doc / NCX table of contents) and the open/meta/resource facade.  *)
(*                                                                         *)
(* Strings that the program concatenates or matches by name (paths, hrefs) *)
(* are sequences of one-character strings, so that format!("{}/{}", ..)    *)
(* is a real concatenation and a ZIP lookup is a real comparison.  Strings *)
(* that are only compared as a whole (tag names, ids, property values)     *)
(* are TLA+ strings.  Option<T> is a sequence of length 0 or 1; Result is  *)
(* a record with an `ok` field.                                            *)
(***************************************************************************)
EXTENDS Naturals, Sequences, FiniteSets, TLC

VARIABLES
    archive,    \* the opened ZipArchive: entry name -> entry
    metaOut,    \* Option: outcome of the last Parser::meta call on `archive`
    resOut,     \* Option: outcome of the last Parser::resource call
    pkgIn,      \* the (doc, base_path) handed to PackageDocument::from
    pkgOut,     \* Option: what PackageDocument::from made of pkgIn
    tocIn,      \* the (kind, doc, base_path) handed to Toc::from_nav_doc / from_ncx
    tocOut,     \* Option: what the TOC parser made of tocIn
    textIn,     \* the node handed to nav_doc::text_norm
    textOut,    \* Option: what text_norm made of textIn
    containerIn,  \* the document handed to Container::from
    containerOut  \* Option: what Container::from made of containerIn

vars == <<archive, metaOut, resOut, pkgIn, pkgOut, tocIn, tocOut,
          textIn, textOut, containerIn, containerOut>>

-----------------------------------------------------------------------------
(* Option and Result *)

None == <<>>
Some(x) == <<x>>
IsSome(o) == Len(o) = 1
IsNone(o) == Len(o) = 0
Unwrap(o) == o[1]

Ok(v) == [ok |-> TRUE, val |-> v]
Err(e) == [ok |-> FALSE, err |-> e]

-----------------------------------------------------------------------------
(* Bounds of the inputs *)

MaxItems == 2
MaxRefs == 3
MaxRootFiles == 2
MaxKids == 2
MaxText == 6


\* the sequences over S of length at most n
SeqsUpTo(S, n) == UNION {[1..k -> S] : k \in 0..n}

-----------------------------------------------------------------------------
(* Strings as character sequences *)

Slash == "/"

IsPrefix(p, s) == Len(p) <= Len(s) /\ SubSeq(s, 1, Len(p)) = p

\* format!("{}/{}", base_path, str)
FormatPath(base_path, str) == base_path \o <<Slash>> \o str

-----------------------------------------------------------------------------
(* XML as roxmltree presents it: a tree of element and text nodes.  An     *)
(* element has a local tag name, a namespace, attributes and children; a   *)
(* text node has tag "#text" and its characters in `text`.                 *)

NoAttrs == <<>>
NAMESPACE_DC == "dc"

Elem(tag, attrs, kids) ==
    [tag |-> tag, ns |-> "", attrs |-> attrs, kids |-> kids, text |-> <<>>]
ElemNs(ns, tag, attrs, kids) ==
    [tag |-> tag, ns |-> ns, attrs |-> attrs, kids |-> kids, text |-> <<>>]
TextNode(chars) ==
    [tag |-> "#text", ns |-> "", attrs |-> NoAttrs, kids |-> <<>>, text |-> chars]

\* an attribute that is present iff the option is set
OptAttr(name, opt) == IF IsSome(opt) THEN name :> Unwrap(opt) ELSE NoAttrs

\* node.has_tag_name("x"): local name only, the namespace is not compared
HasTagName(node, name) == node.tag = name
\* node.has_tag_name((ns, "x"))
HasTagNameNs(node, ns, name) == node.tag = name /\ node.ns = ns
HasAttribute(node, name) == name \in DOMAIN node.attrs
\* node.attribute(name): Option
Attribute(node, name) ==
    IF name \in DOMAIN node.attrs THEN Some(node.attrs[name]) ELSE None
IsText(node) == node.tag = "#text"

\* children().find(has_tag_name(name)): the first child element so named
RECURSIVE FindFrom(_, _, _)
FindFrom(kids, name, i) ==
    IF i > Len(kids) THEN None
    ELSE IF HasTagName(kids[i], name) THEN Some(kids[i])
    ELSE FindFrom(kids, name, i + 1)
FindChild(node, name) == FindFrom(node.kids, name, 1)

\* children().filter(has_tag_name(name)): all such children, document order
RECURSIVE FilterFrom(_, _, _)
FilterFrom(kids, name, i) ==
    IF i > Len(kids) THEN <<>>
    ELSE (IF HasTagName(kids[i], name) THEN <<kids[i]>> ELSE <<>>)
         \o FilterFrom(kids, name, i + 1)
FilterChildren(node, name) == FilterFrom(node.kids, name, 1)

\* roxmltree::Document::parse: a document text is well-formed or not
XmlDoc(root) == [wellformed |-> TRUE, root |-> root]
MalformedDoc == [wellformed |-> FALSE, root |-> Elem("", NoAttrs, <<>>)]
DocumentParse(doc) ==
    IF doc.wellformed THEN Ok(doc.root) ELSE Err("MalformedXml")

-----------------------------------------------------------------------------
(* HashMap *)

EmptyMap == <<>>
MapInsert(m, k, v) ==
    [x \in (DOMAIN m) \cup {k} |-> IF x = k THEN v ELSE m[x]]
MapGet(m, k) == IF k \in DOMAIN m THEN Some(m[k]) ELSE None
MapValues(m) == {m[k] : k \in DOMAIN m}

-----------------------------------------------------------------------------
(* Text helpers *)

Whitespace == {" ", "\t", "\n"}

RECURSIVE TrimStart(_)
TrimStart(s) ==
    IF s # <<>> /\ Head(s) \in Whitespace THEN TrimStart(Tail(s)) ELSE s
RECURSIVE TrimEnd(_)
TrimEnd(s) ==
    IF s # <<>> /\ s[Len(s)] \in Whitespace
    THEN TrimEnd(SubSeq(s, 1, Len(s) - 1)) ELSE s
\* a trim that knows U+0020 only
RECURSIVE Trim_SpacesOnly(_)
Trim_SpacesOnly(s) ==
    IF s # <<>> /\ Head(s) = " " THEN Trim_SpacesOnly(Tail(s))
    ELSE IF s # <<>> /\ s[Len(s)] = " " THEN Trim_SpacesOnly(SubSeq(s, 1, Len(s) - 1))
    ELSE s

\* str::trim
Trim(s) == TrimEnd(TrimStart(s))

\* Node::text: a text node's characters; for an element, those of its first
\* child when that child is a text node
NodeText(node) ==
    IF IsText(node) THEN Some(node.text)
    ELSE IF node.kids # <<>> /\ IsText(node.kids[1]) THEN Some(node.kids[1].text)
    ELSE None

-----------------------------------------------------------------------------
(* parser/package_document.rs *)

RECURSIVE FindNsFrom(_, _, _, _)
FindNsFrom(kids, ns, name, i) ==
    IF i > Len(kids) THEN None
    ELSE IF HasTagNameNs(kids[i], ns, name) THEN Some(kids[i])
    ELSE FindNsFrom(kids, ns, name, i + 1)

\* the first dc:<name> child, its text trimmed; "" when there is none
MetadataField(metadata_elem, name) ==
    LET found == FindNsFrom(metadata_elem.kids, NAMESPACE_DC, name, 1)
    IN  IF IsNone(found) THEN <<>>
        ELSE LET t == NodeText(Unwrap(found))
             IN  Trim(IF IsSome(t) THEN Unwrap(t) ELSE <<>>)

parse_metadata(metadata_elem) ==
    [title |-> MetadataField(metadata_elem, "title"),
     language |-> MetadataField(metadata_elem, "language")]

\* node.attribute("href").map(|str| format!("{}/{}", base_path, str))
HrefPath(node, base_path) ==
    LET href == Attribute(node, "href")
    IN  IF IsSome(href) THEN Some(FormatPath(base_path, Unwrap(href))) ELSE None

\* a loop that indexes by path only the items that state a media type
ManifestItem_PathNeedsMediaType(acc, node, base_path) ==
    LET is_cover == Attribute(node, "properties") = Some("cover-image")
        is_nav == Attribute(node, "properties") = Some("nav")
        indexed == HasAttribute(node, "id") /\ HasAttribute(node, "href")
        path == FormatPath(base_path, node.attrs["href"])
    IN  [cover_image_path |->
            IF is_cover THEN HrefPath(node, base_path) ELSE acc.cover_image_path,
         toc_nav_doc_path |->
            IF is_nav THEN HrefPath(node, base_path) ELSE acc.toc_nav_doc_path,
         manifest_by_id |->
            IF indexed THEN MapInsert(acc.manifest_by_id, node.attrs["id"], path)
            ELSE acc.manifest_by_id,
         manifest_by_path |->
            IF indexed /\ HasAttribute(node, "media-type")
            THEN MapInsert(acc.manifest_by_path, path, Attribute(node, "media-type"))
            ELSE acc.manifest_by_path]

\* one turn of the loop over the <item> children
ManifestItem(acc, node, base_path) ==
    LET is_cover == Attribute(node, "properties") = Some("cover-image")
        is_nav == Attribute(node, "properties") = Some("nav")
        indexed == HasAttribute(node, "id") /\ HasAttribute(node, "href")
        path == FormatPath(base_path, node.attrs["href"])
    IN  [cover_image_path |->
            IF is_cover THEN HrefPath(node, base_path) ELSE acc.cover_image_path,
         toc_nav_doc_path |->
            IF is_nav THEN HrefPath(node, base_path) ELSE acc.toc_nav_doc_path,
         manifest_by_id |->
            IF indexed THEN MapInsert(acc.manifest_by_id, node.attrs["id"], path)
            ELSE acc.manifest_by_id,
         manifest_by_path |->
            IF indexed
            THEN MapInsert(acc.manifest_by_path, path, Attribute(node, "media-type"))
            ELSE acc.manifest_by_path]

RECURSIVE ManifestLoop(_, _, _, _)
ManifestLoop(acc, items, base_path, i) ==
    IF i > Len(items) THEN acc
    ELSE ManifestLoop(ManifestItem(acc, items[i], base_path), items, base_path, i + 1)

parse_manifest(manifest_elem, base_path) ==
    ManifestLoop([cover_image_path |-> None, toc_nav_doc_path |-> None,
                  manifest_by_id |-> EmptyMap, manifest_by_path |-> EmptyMap],
                 FilterChildren(manifest_elem, "item"), base_path, 1)

\* the filter of parse_spine: an <itemref> whose idref is a manifest id
SpineKeeps(node, manifest_by_id) ==
    /\ HasTagName(node, "itemref")
    /\ HasAttribute(node, "idref")
    /\ node.attrs["idref"] \in DOMAIN manifest_by_id

\* a spine collected back to front
RECURSIVE SpineFrom_Reversed(_, _, _)
SpineFrom_Reversed(kids, manifest_by_id, i) ==
    IF i > Len(kids) THEN <<>>
    ELSE SpineFrom_Reversed(kids, manifest_by_id, i + 1)
         \o (IF SpineKeeps(kids[i], manifest_by_id)
             THEN <<manifest_by_id[kids[i].attrs["idref"]]>> ELSE <<>>)

RECURSIVE SpineFrom(_, _, _)
SpineFrom(kids, manifest_by_id, i) ==
    IF i > Len(kids) THEN <<>>
    ELSE (IF SpineKeeps(kids[i], manifest_by_id)
          THEN <<manifest_by_id[kids[i].attrs["idref"]]>> ELSE <<>>)
         \o SpineFrom(kids, manifest_by_id, i + 1)

\* a spine whose toc attribute is taken as the id of the NCX item, as EPUB 2 has it
SpineToc_AnyId(spine_elem) == Attribute(spine_elem, "toc")

\* spine_elem.attribute("toc"), kept only when it is the literal "ncx"
SpineToc(spine_elem) ==
    LET toc == Attribute(spine_elem, "toc")
    IN  IF IsSome(toc) /\ Unwrap(toc) = "ncx" THEN Some("ncx") ELSE None

parse_spine(spine_elem, manifest_by_id) ==
    [ncx |-> SpineToc(spine_elem),
     spine |-> SpineFrom(spine_elem.kids, manifest_by_id, 1)]

\* ncx.map(|ncx| manifest_by_id.get(&ncx).cloned()).flatten()
TocNcxPath(ncx, manifest_by_id) ==
    IF IsSome(ncx) THEN MapGet(manifest_by_id, Unwrap(ncx)) ELSE None

PackageDocumentFrom(doc, base_path) ==
    LET parsed == DocumentParse(doc)
    IN  IF ~parsed.ok THEN parsed
        ELSE
        LET package_elem == parsed.val
            metadata_elem == FindChild(package_elem, "metadata")
            manifest_elem == FindChild(package_elem, "manifest")
            spine_elem == FindChild(package_elem, "spine")
        IN  IF IsNone(metadata_elem) THEN Err("metadata node not found")
            ELSE IF IsNone(manifest_elem) THEN Err("manifest node not found")
            ELSE IF IsNone(spine_elem) THEN Err("spine node not found")
            ELSE
            LET md == parse_metadata(Unwrap(metadata_elem))
                mf == parse_manifest(Unwrap(manifest_elem), base_path)
                sp == parse_spine(Unwrap(spine_elem), mf.manifest_by_id)
            IN  Ok([title |-> md.title,
                    language |-> md.language,
                    cover_image_path |-> mf.cover_image_path,
                    spine |-> sp.spine,
                    manifest |-> mf.manifest_by_path,
                    toc_ncx_path |-> TocNcxPath(sp.ncx, mf.manifest_by_id),
                    toc_nav_doc_path |-> mf.toc_nav_doc_path])

-----------------------------------------------------------------------------
(* parser/toc.rs *)

TocNode(title, href, children) ==
    [title |-> title, href |-> href, children |-> children]

\* doc.descendants(): the node and everything below it, in document order
RECURSIVE Descendants(_)
RECURSIVE DescendantsOfAll(_, _)
Descendants(node) == <<node>> \o DescendantsOfAll(node.kids, 1)
DescendantsOfAll(kids, i) ==
    IF i > Len(kids) THEN <<>>
    ELSE Descendants(kids[i]) \o DescendantsOfAll(kids, i + 1)

(* mod nav_doc *)

RECURSIVE collect_text(_)
RECURSIVE CollectTextOfAll(_, _)
collect_text(node) ==
    IF IsText(node) THEN node.text ELSE CollectTextOfAll(node.kids, 1)
CollectTextOfAll(kids, i) ==
    IF i > Len(kids) THEN <<>>
    ELSE collect_text(kids[i]) \o CollectTextOfAll(kids, i + 1)

\* Regex \s+ replaced by " ": every maximal run of whitespace becomes one space
RECURSIVE CollapseWhitespace(_)
CollapseWhitespace(s) ==
    IF s = <<>> THEN <<>>
    ELSE IF Head(s) \in Whitespace
         THEN <<" ">> \o CollapseWhitespace(TrimStart(s))
         ELSE <<Head(s)>> \o CollapseWhitespace(Tail(s))

NormalizeText(s) == CollapseWhitespace(Trim(s))
text_norm(node) == NormalizeText(collect_text(node))

\* the children an <ol> found under an <li> gives: Some(sequence), as collected
NavChildren(parsed) == Some(parsed)

RECURSIVE parse_li(_, _)
RECURSIVE ParseLis(_, _, _)
\* a parse_li that looks for the <span> before the <a>
parse_li_SpanFirst(li_elem, base_path) ==
    LET a_elem == FindChild(li_elem, "a")
        span_elem == FindChild(li_elem, "span")
        ol_elem == FindChild(li_elem, "ol")
        title == IF IsSome(span_elem) THEN text_norm(Unwrap(span_elem))
                 ELSE IF IsSome(a_elem) THEN text_norm(Unwrap(a_elem))
                 ELSE <<>>
        href == IF IsNone(span_elem) /\ IsSome(a_elem)
                THEN HrefPath(Unwrap(a_elem), base_path) ELSE None
        children ==
            IF IsSome(ol_elem)
            THEN NavChildren(ParseLis(FilterChildren(Unwrap(ol_elem), "li"), base_path, 1))
            ELSE None
    IN  TocNode(title, href, children)

parse_li(li_elem, base_path) ==
    LET a_elem == FindChild(li_elem, "a")
        span_elem == FindChild(li_elem, "span")
        ol_elem == FindChild(li_elem, "ol")
        title == IF IsSome(a_elem) THEN text_norm(Unwrap(a_elem))
                 ELSE IF IsSome(span_elem) THEN text_norm(Unwrap(span_elem))
                 ELSE <<>>
        href == IF IsSome(a_elem) THEN HrefPath(Unwrap(a_elem), base_path) ELSE None
        children ==
            IF IsSome(ol_elem)
            THEN NavChildren(ParseLis(FilterChildren(Unwrap(ol_elem), "li"), base_path, 1))
            ELSE None
    IN  TocNode(title, href, children)
ParseLis(lis, base_path, i) ==
    IF i > Len(lis) THEN <<>>
    ELSE <<parse_li(lis[i], base_path)>> \o ParseLis(lis, base_path, i + 1)

IsTocNav(node) == HasTagName(node, "nav") /\ Attribute(node, "id") = Some("toc")

RECURSIVE FindTocNav(_, _)
FindTocNav(nodes, i) ==
    IF i > Len(nodes) THEN None
    ELSE IF IsTocNav(nodes[i]) THEN Some(nodes[i])
    ELSE FindTocNav(nodes, i + 1)

nav_doc_parse(doc, base_path) ==
    LET parsed == DocumentParse(doc)
    IN  IF ~parsed.ok THEN parsed
        ELSE
        LET toc_node == FindTocNav(Descendants(parsed.val), 1)
        IN  IF IsNone(toc_node) THEN Err("nav(id=toc) node not found")
            ELSE
            LET ol_elem == FindChild(Unwrap(toc_node), "ol")
            IN  IF IsNone(ol_elem) THEN Err("top level ol node not found")
                ELSE Ok(ParseLis(FilterChildren(Unwrap(ol_elem), "li"), base_path, 1))

(* mod ncx *)

\* an NCX parser that leaves its base path unused
NavPointHref_NoBase(nav_point_elem, base_path) ==
    LET content_elem == FindChild(nav_point_elem, "content")
    IN  IF IsSome(content_elem) THEN Attribute(Unwrap(content_elem), "src") ELSE None

\* the src of the first <content> child, under the base path
NavPointHref(nav_point_elem, base_path) ==
    LET content_elem == FindChild(nav_point_elem, "content")
        src == IF IsSome(content_elem) THEN Attribute(Unwrap(content_elem), "src")
               ELSE None
    IN  IF IsSome(src) THEN Some(FormatPath(base_path, Unwrap(src))) ELSE None

\* navLabel/text, raw; "" when either is absent or the text is empty
NavPointTitle(nav_point_elem) ==
    LET nav_label_elem == FindChild(nav_point_elem, "navLabel")
        text_elem == IF IsSome(nav_label_elem)
                     THEN FindChild(Unwrap(nav_label_elem), "text") ELSE None
        text == IF IsSome(text_elem) THEN NodeText(Unwrap(text_elem)) ELSE None
    IN  IF IsSome(text) THEN Unwrap(text) ELSE <<>>

\* if children.is_empty() { None } else { Some(children) }
NcxChildren(children) == IF children = <<>> THEN None ELSE Some(children)

RECURSIVE parse_nav_point(_, _)
RECURSIVE ParseNavPoints(_, _, _)
parse_nav_point(nav_point_elem, base_path) ==
    TocNode(NavPointTitle(nav_point_elem),
            NavPointHref(nav_point_elem, base_path),
            NcxChildren(ParseNavPoints(FilterChildren(nav_point_elem, "navPoint"),
                                       base_path, 1)))
ParseNavPoints(nps, base_path, i) ==
    IF i > Len(nps) THEN <<>>
    ELSE <<parse_nav_point(nps[i], base_path)>> \o ParseNavPoints(nps, base_path, i + 1)

RECURSIVE FindByTag(_, _, _)
FindByTag(nodes, name, i) ==
    IF i > Len(nodes) THEN None
    ELSE IF HasTagName(nodes[i], name) THEN Some(nodes[i])
    ELSE FindByTag(nodes, name, i + 1)

ncx_parse(doc, base_path) ==
    LET parsed == DocumentParse(doc)
    IN  IF ~parsed.ok THEN parsed
        ELSE
        LET nav_map_elem == FindByTag(Descendants(parsed.val), "navMap", 1)
        IN  IF IsNone(nav_map_elem) THEN Err("navMap node not found")
            ELSE Ok(ParseNavPoints(FilterChildren(Unwrap(nav_map_elem), "navPoint"),
                                   base_path, 1))

(* impl Toc *)

TocOf(contents) ==
    IF contents.ok THEN Ok([contents |-> contents.val]) ELSE contents
from_nav_doc(doc, base_path) == TocOf(nav_doc_parse(doc, base_path))
from_ncx(doc, base_path) == TocOf(ncx_parse(doc, base_path))

-----------------------------------------------------------------------------
(* parser/container.rs *)

RECURSIVE StripTrailingSlashes(_)
StripTrailingSlashes(p) ==
    IF p # <<>> /\ p[Len(p)] = Slash
    THEN StripTrailingSlashes(SubSeq(p, 1, Len(p) - 1)) ELSE p

RECURSIVE StripLastComponent(_)
StripLastComponent(p) ==
    IF p # <<>> /\ p[Len(p)] # Slash
    THEN StripLastComponent(SubSeq(p, 1, Len(p) - 1)) ELSE p

\* PathBuf::pop: truncate to the parent; a path with no component to drop
\* (empty, or only the root) is left as it is
PathPop(full_path) ==
    LET named == StripTrailingSlashes(full_path)
        above == StripLastComponent(named)
        parent == StripTrailingSlashes(above)
    IN  IF named = <<>> THEN full_path
        ELSE IF parent = <<>> /\ above # <<>> THEN <<Slash>>
        ELSE parent

RootFile(full_path) == [base_path |-> PathPop(full_path), full_path |-> full_path]

\* a filter that takes any element with a full-path
IsRootFile_AnyTag(node) == HasAttribute(node, "full-path")

IsRootFile(node) == HasTagName(node, "rootfile") /\ HasAttribute(node, "full-path")

RECURSIVE RootFilesFrom(_, _)
RootFilesFrom(nodes, i) ==
    IF i > Len(nodes) THEN <<>>
    ELSE (IF IsRootFile(nodes[i]) THEN <<RootFile(nodes[i].attrs["full-path"])>>
          ELSE <<>>)
         \o RootFilesFrom(nodes, i + 1)

ContainerFrom(doc) ==
    LET parsed == DocumentParse(doc)
    IN  IF ~parsed.ok THEN parsed
        ELSE Ok([root_files |-> RootFilesFrom(Descendants(parsed.val), 1)])

-----------------------------------------------------------------------------
(* util/zip_util.rs: the archive maps an entry name to its bytes; `text` is *)
(* the entry read as UTF-8 (None when the bytes are not UTF-8).             *)

Entry(bytes, text) == [bytes |-> bytes, text |-> text]

\* archive.by_name(path): the entry stored under exactly this name
by_name(ar, path) ==
    IF path \in DOMAIN ar THEN Ok(ar[path]) ELSE Err("FileNotFound")

read_text_file(ar, path) ==
    LET file == by_name(ar, path)
    IN  IF ~file.ok THEN file
        ELSE IF IsNone(file.val.text) THEN Err("InvalidUtf8")
        ELSE Ok(Unwrap(file.val.text))

read_binary_file(ar, path) ==
    LET file == by_name(ar, path)
    IN  IF ~file.ok THEN file ELSE Ok(file.val.bytes)

-----------------------------------------------------------------------------
(* parser/mod.rs *)

CONTAINER_PATH ==
    <<"M", "E", "T", "A", "-", "I", "N", "F", "/",
      "c", "o", "n", "t", "a", "i", "n", "e", "r", ".", "x", "m", "l">>

\* a facade that asks for the NCX first
TocSource_NcxFirst(pkg_doc) ==
    IF IsSome(pkg_doc.toc_ncx_path) THEN "ncx"
    ELSE IF IsSome(pkg_doc.toc_nav_doc_path) THEN "nav"
    ELSE "none"

\* which TOC document meta() goes for, given the parsed package document
TocSource(pkg_doc) ==
    IF IsSome(pkg_doc.toc_nav_doc_path) THEN "nav"
    ELSE IF IsSome(pkg_doc.toc_ncx_path) THEN "ncx"
    ELSE "none"

\* a facade that takes the last rendition
FirstRootFile_Last(root_files) == root_files[Len(root_files)]

\* container.root_files[0]
FirstRootFile(root_files) == root_files[1]

\* What one call of meta() did: its result, the entries it asked the archive
\* for and the parsers it ran (both in order), and its locals once bound.
MetaRun(result, reads, parsers, root_file, pkg_doc) ==
    [result |-> result, reads |-> reads, parsers |-> parsers,
     root_file |-> root_file, pkg_doc |-> pkg_doc]

\* a facade that turns to the NCX when the nav-doc cannot be read or parsed
MetaToc_FallsBack(ar, root_file, pkg_doc, reads, parsers) ==
    LET nav_text == read_text_file(ar, Unwrap(pkg_doc.toc_nav_doc_path))
        nav_fails == \/ ~nav_text.ok
                     \/ ~from_nav_doc(nav_text.val, root_file.base_path).ok
        falls_back == /\ IsSome(pkg_doc.toc_nav_doc_path)
                      /\ IsSome(pkg_doc.toc_ncx_path)
                      /\ nav_fails
        source == IF falls_back THEN "ncx" ELSE TocSource(pkg_doc)
        toc_path == IF source = "nav" THEN Unwrap(pkg_doc.toc_nav_doc_path)
                    ELSE Unwrap(pkg_doc.toc_ncx_path)
        toc_text == read_text_file(ar, toc_path)
        toc == IF source = "nav" THEN from_nav_doc(toc_text.val, root_file.base_path)
               ELSE from_ncx(toc_text.val, root_file.base_path)
        rf == Some(root_file)
        pd == Some(pkg_doc)
    IN  IF source = "none" THEN MetaRun(Err("no toc found"), reads, parsers, rf, pd)
        ELSE IF ~toc_text.ok
        THEN MetaRun(toc_text, Append(reads, toc_path), parsers, rf, pd)
        ELSE IF ~toc.ok
        THEN MetaRun(toc, Append(reads, toc_path), Append(parsers, source), rf, pd)
        ELSE MetaRun(Ok([title |-> pkg_doc.title,
                         manifest |-> pkg_doc.manifest,
                         spine |-> pkg_doc.spine,
                         toc |-> toc.val]),
                     Append(reads, toc_path), Append(parsers, source), rf, pd)

\* the TOC step of meta(), after the package document is parsed
MetaToc(ar, root_file, pkg_doc, reads, parsers) ==
    LET source == TocSource(pkg_doc)
        toc_path == IF source = "nav" THEN Unwrap(pkg_doc.toc_nav_doc_path)
                    ELSE Unwrap(pkg_doc.toc_ncx_path)
        toc_text == read_text_file(ar, toc_path)
        toc == IF source = "nav" THEN from_nav_doc(toc_text.val, root_file.base_path)
               ELSE from_ncx(toc_text.val, root_file.base_path)
        rf == Some(root_file)
        pd == Some(pkg_doc)
    IN  IF source = "none" THEN MetaRun(Err("no toc found"), reads, parsers, rf, pd)
        ELSE IF ~toc_text.ok
        THEN MetaRun(toc_text, Append(reads, toc_path), parsers, rf, pd)
        ELSE IF ~toc.ok
        THEN MetaRun(toc, Append(reads, toc_path), Append(parsers, source), rf, pd)
        ELSE MetaRun(Ok([title |-> pkg_doc.title,
                         manifest |-> pkg_doc.manifest,
                         spine |-> pkg_doc.spine,
                         toc |-> toc.val]),
                     Append(reads, toc_path), Append(parsers, source), rf, pd)

\* the package-document step of meta(), after the root-file is chosen
MetaPackage(ar, root_file, reads, parsers) ==
    LET opf_text == read_text_file(ar, root_file.full_path)
        pkg_doc == PackageDocumentFrom(opf_text.val, root_file.base_path)
        reads2 == Append(reads, root_file.full_path)
        rf == Some(root_file)
    IN  IF ~opf_text.ok THEN MetaRun(opf_text, reads2, parsers, rf, None)
        ELSE IF ~pkg_doc.ok
        THEN MetaRun(pkg_doc, reads2, Append(parsers, "opf"), rf, None)
        ELSE MetaToc(ar, root_file, pkg_doc.val, reads2, Append(parsers, "opf"))

meta(ar) ==
    LET container_text == read_text_file(ar, CONTAINER_PATH)
        container == ContainerFrom(container_text.val)
        reads == <<CONTAINER_PATH>>
    IN  IF ~container_text.ok THEN MetaRun(container_text, reads, <<>>, None, None)
        ELSE IF ~container.ok
        THEN MetaRun(container, reads, <<"container">>, None, None)
        ELSE IF container.val.root_files = <<>>
        THEN MetaRun(Err("no rootfile found"), reads, <<"container">>, None, None)
        ELSE MetaPackage(ar, FirstRootFile(container.val.root_files),
                         reads, <<"container">>)

resource(ar, path) == read_binary_file(ar, path)

-----------------------------------------------------------------------------
(* The EPUBs the facade is run on.  An EPUB stores a resource under the     *)
(* name formed from the directory of its OPF and the href the OPF gives it, *)
(* which is the href alone when the OPF sits at the archive root.           *)

ArchiveName(dir, href) == IF dir = <<>> THEN href ELSE dir \o <<Slash>> \o href

OpfDirs == {<<>>, <<"e">>, <<"f">>}
OpfName == <<"o">>
NavHref == <<"t">>
NcxHref == <<"n">>
ChapterHref == <<"a">>
CoverHref == <<"c">>

Item(id, href, properties, media_type) ==
    Elem("item",
         OptAttr("id", id) @@ OptAttr("href", href)
            @@ OptAttr("properties", properties) @@ OptAttr("media-type", media_type),
         <<>>)
ItemRef(idref) == Elem("itemref", OptAttr("idref", idref), <<>>)

PackageXml(metadata_kids, manifest_kids, spine_toc, spine_kids) ==
    XmlDoc(Elem("package", NoAttrs,
                <<Elem("metadata", NoAttrs, metadata_kids),
                  Elem("manifest", NoAttrs, manifest_kids),
                  Elem("spine", OptAttr("toc", spine_toc), spine_kids)>>))

TitleElem == ElemNs(NAMESPACE_DC, "title", NoAttrs, <<TextNode(<<" ", "J", " ">>)>>)

\* a package document with a chapter and a cover image, with or without a
\* nav item, an item with id "ncx" and <spine toc=..>
FacadeOpf(has_nav, has_ncx, spine_toc) ==
    PackageXml(
        <<TitleElem>>,
        <<Item(Some("a"), Some(ChapterHref), None, Some("xhtml"))>>
        \o (IF has_nav THEN <<Item(Some("toc"), Some(NavHref), Some("nav"), None)>>
            ELSE <<>>)
        \o (IF has_ncx THEN <<Item(Some("ncx"), Some(NcxHref), None, None)>> ELSE <<>>)
        \o <<Item(Some("cov"), Some(CoverHref), Some("cover-image"), Some("svg"))>>,
        spine_toc,
        <<ItemRef(Some("a")), ItemRef(Some("zz")), ItemRef(Some("cov"))>>)

NoSpineOpf ==
    XmlDoc(Elem("package", NoAttrs,
                <<Elem("metadata", NoAttrs, <<>>), Elem("manifest", NoAttrs, <<>>)>>))

Link(href, label) == Elem("a", OptAttr("href", href), <<TextNode(label)>>)
Span(label) == Elem("span", NoAttrs, <<TextNode(label)>>)
Li(kids) == Elem("li", NoAttrs, kids)
Ol(kids) == Elem("ol", NoAttrs, kids)

NavXml(nav_kids) ==
    XmlDoc(Elem("html", NoAttrs,
                <<Elem("head", NoAttrs, <<>>),
                  Elem("body", NoAttrs,
                       <<Elem("nav", OptAttr("id", Some("toc")), nav_kids)>>)>>))

FacadeNav ==
    NavXml(<<Elem("h2", NoAttrs, <<>>),
             Ol(<<Li(<<Link(Some(ChapterHref), <<"A">>)>>),
                  Li(<<Span(<<"S">>),
                       Ol(<<Li(<<Link(Some(CoverHref), <<"C">>)>>)>>)>>)>>)>>)

NavLabel(label) ==
    Elem("navLabel", NoAttrs, <<Elem("text", NoAttrs, <<TextNode(label)>>)>>)
Content(src) == Elem("content", OptAttr("src", src), <<>>)
NavPoint(kids) == Elem("navPoint", NoAttrs, kids)
NcxXml(nav_map_kids) ==
    XmlDoc(Elem("ncx", NoAttrs,
                <<Elem("head", NoAttrs, <<>>), Elem("navMap", NoAttrs, nav_map_kids)>>))

FacadeNcx ==
    NcxXml(<<NavPoint(<<NavLabel(<<"A">>), Content(Some(ChapterHref)),
                        NavPoint(<<NavLabel(<<"C">>), Content(Some(CoverHref))>>)>>)>>)

ContainerXml(full_paths) ==
    XmlDoc(Elem("container", NoAttrs,
                <<Elem("rootfiles", NoAttrs,
                       [i \in 1..Len(full_paths) |->
                            Elem("rootfile", OptAttr("full-path", full_paths[i]), <<>>)])>>))

\* an entry's bytes are identified by the name it is stored under
TextEntry(name, doc) == Some(Entry(name, Some(doc)))
BinaryEntry(name) == Some(Entry(name, None))
Absent == None
Stored(name, entry) == IF IsSome(entry) THEN name :> Unwrap(entry) ELSE <<>>

FullPathChoices ==
    {None} \cup {Some(ArchiveName(dir, OpfName)) : dir \in OpfDirs}

BrokenContainers ==
    {Absent, BinaryEntry(CONTAINER_PATH), TextEntry(CONTAINER_PATH, MalformedDoc)}

\* what may be stored as a text document: nothing, or one of `docs`
DocChoices(docs) == {None} \cup {Some(d) : d \in docs}

OpfChoices ==
    DocChoices({MalformedDoc, NoSpineOpf}
               \cup {FacadeOpf(nav, ncx, toc) :
                        nav \in BOOLEAN, ncx \in BOOLEAN, toc \in {None, Some("ncx")}})
OtherOpfChoices == DocChoices({FacadeOpf(FALSE, TRUE, Some("ncx"))})
NavChoices == DocChoices({MalformedDoc, FacadeNav})
NcxChoices == DocChoices({FacadeNcx, XmlDoc(Elem("ncx", NoAttrs, <<>>))})

StoredDoc(name, doc) ==
    Stored(name, IF IsSome(doc) THEN TextEntry(name, Unwrap(doc)) ELSE Absent)

\* the entries below one OPF directory
DirEntries(dir, opf, nav, ncx) ==
    StoredDoc(ArchiveName(dir, OpfName), opf)
    @@ StoredDoc(ArchiveName(dir, NavHref), nav)
    @@ StoredDoc(ArchiveName(dir, NcxHref), ncx)
    @@ Stored(ArchiveName(dir, ChapterHref), BinaryEntry(ArchiveName(dir, ChapterHref)))
    @@ Stored(ArchiveName(dir, CoverHref), BinaryEntry(ArchiveName(dir, CoverHref)))

Epub(container, opf, other_opf, nav, ncx) ==
    Stored(CONTAINER_PATH, container)
    @@ DirEntries(<<>>, opf, nav, ncx)
    @@ DirEntries(<<"e">>, opf, nav, ncx)
    @@ DirEntries(<<"f">>, other_opf, nav, ncx)

-----------------------------------------------------------------------------
(* The facade: an opened Parser, on which meta() and resource() are called *)

\* the paths the last meta() returned: the manifest keys and the spine
KnownPaths ==
    IF IsSome(metaOut) /\ Unwrap(metaOut).result.ok
    THEN (DOMAIN Unwrap(metaOut).result.val.manifest)
         \cup {Unwrap(metaOut).result.val.spine[i] :
                 i \in 1..Len(Unwrap(metaOut).result.val.spine)}
    ELSE {}

Init ==
    /\ \E opf \in OpfChoices, other_opf \in OtherOpfChoices,
          nav \in NavChoices, ncx \in NcxChoices :
          \/ \E container \in BrokenContainers :
                archive = Epub(container, opf, other_opf, nav, ncx)
          \/ \E n \in 0..MaxRootFiles : \E full_paths \in [1..n -> FullPathChoices] :
                archive = Epub(TextEntry(CONTAINER_PATH, ContainerXml(full_paths)),
                               opf, other_opf, nav, ncx)
    /\ metaOut = None
    /\ resOut = None
    /\ pkgIn = None
    /\ pkgOut = None
    /\ tocIn = None
    /\ tocOut = None
    /\ textIn = None
    /\ textOut = None
    /\ containerIn = None
    /\ containerOut = None

Meta ==
    /\ metaOut' = Some(meta(archive))
    /\ UNCHANGED <<archive, resOut, pkgIn, pkgOut, tocIn, tocOut,
                   textIn, textOut, containerIn, containerOut>>

Resource(path) ==
    /\ resOut' = Some([path |-> path, result |-> resource(archive, path)])
    /\ UNCHANGED <<archive, metaOut, pkgIn, pkgOut, tocIn, tocOut,
                   textIn, textOut, containerIn, containerOut>>

Next ==
    \/ Meta
    \/ \E path \in KnownPaths \cup {ArchiveName(<<>>, ChapterHref)} : Resource(path)

Spec == Init /\ [][Next]_vars

-----------------------------------------------------------------------------
(* Claims about the facade, checked under Spec *)

MetaDone == IsSome(metaOut)
M == Unwrap(metaOut)
OpfParsed == MetaDone /\ IsSome(M.pkg_doc)
Pkg == Unwrap(M.pkg_doc)
RootFileUsed == Unwrap(M.root_file)

Range(seq) == {seq[i] : i \in 1..Len(seq)}

\* C1: once the OPF is parsed, the TOC source depends only on the two paths
\* the package document advertises: with toc_nav_doc_path set, the nav-doc is
\* the third entry read and only the nav-doc parser runs (the NCX is neither
\* read nor parsed, even when toc_ncx_path is set too); with only
\* toc_ncx_path set, the NCX is read and only the NCX parser runs; with
\* neither, meta() fails with "no toc found" and reads no third entry.
C1_TocSourceByPriority ==
    OpfParsed =>
        /\ IsSome(Pkg.toc_nav_doc_path) =>
              /\ Len(M.reads) = 3
              /\ M.reads[3] = Unwrap(Pkg.toc_nav_doc_path)
              /\ "ncx" \notin Range(M.parsers)
              /\ read_text_file(archive, M.reads[3]).ok
                    => M.parsers = <<"container", "opf", "nav">>
              /\ IsSome(Pkg.toc_ncx_path)
                    => Unwrap(Pkg.toc_ncx_path) \notin Range(M.reads)
        /\ (IsNone(Pkg.toc_nav_doc_path) /\ IsSome(Pkg.toc_ncx_path)) =>
              /\ Len(M.reads) = 3
              /\ M.reads[3] = Unwrap(Pkg.toc_ncx_path)
              /\ "nav" \notin Range(M.parsers)
              /\ read_text_file(archive, M.reads[3]).ok
                    => M.parsers = <<"container", "opf", "ncx">>
        /\ (IsNone(Pkg.toc_nav_doc_path) /\ IsNone(Pkg.toc_ncx_path)) =>
              /\ M.result = Err("no toc found")
              /\ Len(M.reads) = 2
              /\ M.parsers = <<"container", "opf">>
        /\ "ncx" \in Range(M.parsers)
              => IsNone(Pkg.toc_nav_doc_path) /\ IsSome(Pkg.toc_ncx_path)

\* both paths advertised and both documents readable: the nav-doc was parsed
C1_Witness ==
    /\ OpfParsed
    /\ IsSome(Pkg.toc_nav_doc_path)
    /\ IsSome(Pkg.toc_ncx_path)
    /\ read_text_file(archive, Unwrap(Pkg.toc_ncx_path)).ok
    /\ M.result.ok
    /\ M.parsers = <<"container", "opf", "nav">>

\* the outcome of the i-th read and of the i-th parse of a meta() run
ReadStep(i) == read_text_file(archive, M.reads[i])
ParseStep(i) ==
    LET text == ReadStep(i).val
        base_path == ContainerFrom(ReadStep(1).val).val.root_files[1].base_path
    IN  CASE M.parsers[i] = "container" -> ContainerFrom(text)
          [] M.parsers[i] = "opf" -> PackageDocumentFrom(text, base_path)
          [] M.parsers[i] = "nav" -> from_nav_doc(text, base_path)
          [] M.parsers[i] = "ncx" -> from_ncx(text, base_path)

\* C2: meta() is all-or-nothing.  It returns a BookMeta only after three
\* reads and three parses that all succeeded on a non-empty root-file list;
\* otherwise it returns the error of the one step that failed, every step
\* before it succeeded, nothing is read twice, and a nav-doc that cannot be
\* read or parsed is not replaced by the NCX.
C2_AllOrNothing ==
    MetaDone =>
        LET n == Len(M.reads)
            k == Len(M.parsers)
        IN  /\ k <= n /\ n <= k + 1 /\ n <= 3
            /\ \A i, j \in 1..n : M.reads[i] = M.reads[j] => i = j
            /\ \A i \in 1..n : (i < n \/ k = n) => ReadStep(i).ok
            /\ \A i \in 1..k : (i < k \/ M.result.ok) => ParseStep(i).ok
            /\ M.result.ok =>
                  /\ n = 3 /\ k = 3
                  /\ ParseStep(1).val.root_files # <<>>
                  /\ M.result.val.toc = ParseStep(3).val
                  /\ M.result.val.spine = ParseStep(2).val.spine
                  /\ M.result.val.manifest = ParseStep(2).val.manifest
                  /\ M.result.val.title = ParseStep(2).val.title
            /\ ~M.result.ok =>
                  \/ n = k + 1 /\ ~ReadStep(n).ok /\ M.result = ReadStep(n)
                  \/ n = k /\ ~ParseStep(k).ok /\ M.result = ParseStep(k)
                  \/ /\ n = 1 /\ k = 1 /\ ParseStep(1).ok
                     /\ ParseStep(1).val.root_files = <<>>
                     /\ M.result = Err("no rootfile found")
                  \/ /\ n = 2 /\ k = 2 /\ ParseStep(2).ok
                     /\ IsNone(ParseStep(2).val.toc_nav_doc_path)
                     /\ IsNone(ParseStep(2).val.toc_ncx_path)
                     /\ M.result = Err("no toc found")
            /\ (/\ OpfParsed
                /\ IsSome(Pkg.toc_nav_doc_path)
                /\ LET nav == read_text_file(archive, Unwrap(Pkg.toc_nav_doc_path))
                   IN  ~nav.ok \/ ~from_nav_doc(nav.val, RootFileUsed.base_path).ok)
               => ~M.result.ok /\ "ncx" \notin Range(M.parsers)

\* the nav-doc is advertised and broken, a sound NCX is advertised beside it,
\* and meta() failed
C2_Witness ==
    /\ OpfParsed
    /\ IsSome(Pkg.toc_nav_doc_path)
    /\ IsSome(Pkg.toc_ncx_path)
    /\ LET ncx == read_text_file(archive, Unwrap(Pkg.toc_ncx_path))
       IN  ncx.ok /\ from_ncx(ncx.val, RootFileUsed.base_path).ok
    /\ M.parsers = <<"container", "opf", "nav">>
    /\ ~M.result.ok

\* the archive with its container.xml cut down to the first root-file
FirstRootFileOnly(ar) ==
    LET root_files == ContainerFrom(read_text_file(ar, CONTAINER_PATH).val).val.root_files
    IN  [name \in DOMAIN ar |->
            IF name = CONTAINER_PATH
            THEN Entry(name, Some(ContainerXml(<<Some(root_files[1].full_path)>>)))
            ELSE ar[name]]

\* C3: meta() works from the first root-file alone: the OPF it reads is the one
\* at root_files[0].full_path, the package document and the TOC are parsed
\* with root_files[0].base_path, the result is what the archive would give
\* with the later root-files removed, and a first OPF that cannot be read
\* fails meta() without a look at the next root-file.
C3_FirstRootFileOnly ==
    (MetaDone /\ IsSome(M.root_file)) =>
        LET root_files == ContainerFrom(ReadStep(1).val).val.root_files
            first == root_files[1]
            opf == read_text_file(archive, first.full_path)
        IN  /\ RootFileUsed = first
            /\ M.reads[2] = first.full_path
            /\ \A i \in 2..Len(root_files) :
                  root_files[i].full_path # first.full_path
                     => root_files[i].full_path \notin Range(M.reads)
            /\ ~opf.ok => M.result = opf /\ Len(M.reads) = 2
            /\ OpfParsed => M.pkg_doc = Some(PackageDocumentFrom(opf.val, first.base_path).val)
            /\ (Len(M.parsers) = 3 /\ M.result.ok) =>
                  M.result.val.toc = ParseStep(3).val
            /\ M.result = meta(FirstRootFileOnly(archive)).result

\* two root-files, the first OPF missing and the second one readable: failure
C3_Witness ==
    /\ MetaDone /\ IsSome(M.root_file)
    /\ LET root_files == ContainerFrom(ReadStep(1).val).val.root_files
       IN  /\ Len(root_files) >= 2
           /\ root_files[2].full_path # root_files[1].full_path
           /\ ~read_text_file(archive, root_files[1].full_path).ok
           /\ LET second == read_text_file(archive, root_files[2].full_path)
              IN  second.ok /\ PackageDocumentFrom(second.val, root_files[2].base_path).ok
    /\ ~M.result.ok

\* the directory an OPF is stored in
OpfDirOf(full_path) == CHOOSE dir \in OpfDirs : ArchiveName(dir, OpfName) = full_path

\* the hrefs of the <item>s of a package document
ItemHrefs(opf_doc) ==
    LET items == FilterChildren(Unwrap(FindChild(opf_doc.root, "manifest")), "item")
    IN  {items[i].attrs["href"] : i \in {j \in 1..Len(items) : HasAttribute(items[j], "href")}}

\* C4: what meta() produces can be handed back to the archive.  Whenever the
\* archive stores an item under the name formed from the OPF's directory and
\* the item's href, the manifest key and the spine element made from that
\* href, given unchanged to resource(), return that entry's bytes; and the
\* TOC document so stored is found when meta() reads it.
C4_PathsFeedBack ==
    OpfParsed =>
        LET dir == OpfDirOf(RootFileUsed.full_path)
            base_path == RootFileUsed.base_path
            hrefs == ItemHrefs(ReadStep(2).val)
        IN  /\ \A key \in (DOMAIN Pkg.manifest) \cup Range(Pkg.spine) :
                  \A href \in hrefs :
                     (key = FormatPath(base_path, href)
                        /\ ArchiveName(dir, href) \in DOMAIN archive)
                     => resource(archive, key) = Ok(archive[ArchiveName(dir, href)].bytes)
            /\ \A href \in hrefs :
                  (/\ Len(M.reads) = 3
                   /\ M.reads[3] = FormatPath(base_path, href)
                   /\ ArchiveName(dir, href) \in DOMAIN archive)
                  => by_name(archive, M.reads[3]) = Ok(archive[ArchiveName(dir, href)])

-----------------------------------------------------------------------------
(* The parsers on their own: PackageDocument::from, Toc::from_nav_doc and   *)
(* Toc::from_ncx, each applied to a document and a base path.               *)

\* the locals of PackageDocument::from, where it got far enough to bind them
PackageLocals(doc, base_path) ==
    LET parsed == DocumentParse(doc)
        manifest_elem == FindChild(parsed.val, "manifest")
        spine_elem == FindChild(parsed.val, "spine")
        reached == parsed.ok /\ IsSome(FindChild(parsed.val, "metadata"))
        mf == parse_manifest(Unwrap(manifest_elem), base_path)
    IN  IF reached /\ IsSome(manifest_elem) /\ IsSome(spine_elem)
        THEN Some([manifest |-> mf,
                   spine |-> parse_spine(Unwrap(spine_elem), mf.manifest_by_id)])
        ELSE None

BasePaths == {<<>>, <<"e">>}
HrefX == <<"x">>
HrefY == <<"y">>

\* something that is not an <item> / <itemref> but carries the same attributes
ForeignItem ==
    Elem("link", ("id" :> "a") @@ ("href" :> HrefY) @@ ("properties" :> "cover-image"),
         <<>>)
ForeignRef == Elem("meta", "idref" :> "a", <<>>)

\* items that differ in id, href and properties
PropertyItems ==
    {Item(id, href, properties, None) :
        id \in {None, Some("a")},
        href \in {None, Some(HrefX), Some(HrefY)},
        properties \in {None, Some("nav"), Some("cover-image"), Some("cover-image nav")}}
    \cup {ForeignItem}

\* items that differ in id and href, "ncx" among the ids
IndexItems ==
    {Item(id, href, None, Some("m")) :
        id \in {None, Some("a"), Some("ncx")},
        href \in {None, Some(HrefX), Some(HrefY)}}

SpineItems ==
    {Item(Some("a"), Some(HrefX), None, None),
     Item(Some("a"), Some(HrefY), None, None),
     Item(Some("ncx"), Some(HrefY), None, None)}

ItemRefs ==
    {ItemRef(idref) : idref \in {None, Some("a"), Some("ncx"), Some("zz")}}
    \cup {ForeignRef}

PackageInput(doc, base_path) == Some([doc |-> doc, base_path |-> base_path])

BrokenOpfs ==
    {MalformedDoc, NoSpineOpf,
     XmlDoc(Elem("package", NoAttrs, <<Elem("manifest", NoAttrs, <<>>)>>)),
     XmlDoc(Elem("package", NoAttrs, <<Elem("metadata", NoAttrs, <<>>)>>))}

\* the package documents PackageDocument::from is applied to
InitPackage ==
    \/ \E doc \in BrokenOpfs, base_path \in BasePaths :
          pkgIn = PackageInput(doc, base_path)
    \/ \E n \in 0..MaxItems : \E items \in [1..n -> PropertyItems] :
       \E base_path \in BasePaths :
          pkgIn = PackageInput(
                    PackageXml(<<TitleElem>>, items, Some("ncx"), <<ItemRef(Some("a"))>>),
                    base_path)
    \/ \E n \in 0..MaxItems : \E items \in [1..n -> IndexItems] :
       \E toc \in {None, Some("ncx"), Some("a")}, base_path \in BasePaths :
          pkgIn = PackageInput(PackageXml(<<>>, items, toc, <<ItemRef(Some("a"))>>),
                               base_path)
    \/ \E n \in 0..MaxItems : \E items \in [1..n -> SpineItems] :
       \E r \in 0..MaxRefs : \E refs \in [1..r -> ItemRefs] :
          pkgIn = PackageInput(PackageXml(<<>>, items, Some("ncx"), refs), <<"e">>)

\* <li>s: a label (none, <a>, <span>, or both in either order) and a list
LiLabels ==
    {<<>>, <<Link(Some(HrefX), <<"A">>)>>, <<Link(None, <<" ", "A">>)>>,
     <<Span(<<"S">>)>>, <<Span(<<"S">>), Link(Some(HrefY), <<"A">>)>>,
     <<Link(None, <<"A">>), Span(<<"S">>)>>,
     <<Link(Some(HrefX), <<"A">>), Link(Some(HrefY), <<"B">>)>>,
     <<Span(<<"S", " ", "\t", "T", " ">>), Span(<<"U">>)>>,
     <<Elem("span", NoAttrs, <<Link(Some(HrefX), <<"A">>)>>)>>}
FlatLis == {Li(label \o ol) : label \in LiLabels, ol \in {<<>>, <<Ol(<<>>)>>}}
LeafLis == {Li(<<Link(Some(HrefX), <<"A">>)>>), Li(<<Span(<<"S">>)>>)}
MidLis ==
    {Li(<<Link(Some(HrefY), <<"B">>)>> \o ol) :
        ol \in {<<>>} \cup {<<Ol(lis)>> : lis \in SeqsUpTo(LeafLis, MaxKids)}}

TocInput(kind, doc, base_path) ==
    Some([kind |-> kind, doc |-> doc, base_path |-> base_path])

BrokenNavDocs ==
    {MalformedDoc,
     XmlDoc(Elem("html", NoAttrs, <<Elem("nav", NoAttrs, <<Ol(<<>>)>>)>>)),
     NavXml(<<Elem("h2", NoAttrs, <<>>)>>)}

\* <nav>s and what may stand around them: without an id, with another id,
\* id="toc" with two <ol>s, with an <ol> that holds more than <li>s, with no
\* <ol> of its own, and one inside a <div>
NavElem(id, nav_kids) == Elem("nav", OptAttr("id", id), nav_kids)
LinkLi(href, label) == Li(<<Link(Some(href), label)>>)
BodyKids ==
    {NavElem(None, <<Ol(<<LinkLi(HrefX, <<"N">>)>>)>>),
     NavElem(Some("landmarks"), <<Ol(<<LinkLi(HrefX, <<"L">>)>>)>>),
     NavElem(Some("toc"),
             <<Elem("h2", NoAttrs, <<>>),
               Ol(<<LinkLi(HrefX, <<"A">>), LinkLi(HrefY, <<"B">>)>>),
               Ol(<<LinkLi(HrefY, <<"C">>)>>)>>),
     NavElem(Some("toc"),
             <<Ol(<<TextNode(<<" ">>), LinkLi(HrefY, <<"D">>),
                    Elem("div", NoAttrs, <<LinkLi(HrefX, <<"E">>)>>),
                    Li(<<Span(<<"S">>)>>)>>)>>),
     NavElem(Some("toc"), <<Elem("div", NoAttrs, <<Ol(<<LinkLi(HrefX, <<"F">>)>>)>>)>>),
     Elem("div", NoAttrs, <<NavElem(Some("toc"), <<Ol(<<LinkLi(HrefX, <<"G">>)>>)>>)>>)}

\* the nav-docs Toc::from_nav_doc is applied to
InitNavDoc ==
    \E base_path \in BasePaths :
        \/ \E doc \in BrokenNavDocs \cup {FacadeNav} :
              tocIn = TocInput("nav", doc, base_path)
        \/ \E first \in BodyKids, second \in BodyKids :
              tocIn = TocInput("nav",
                               XmlDoc(Elem("html", NoAttrs,
                                           <<Elem("body", NoAttrs, <<first, second>>)>>)),
                               base_path)
        \/ \E n \in 0..MaxKids : \E lis \in [1..n -> FlatLis] :
              tocIn = TocInput("nav", NavXml(<<Ol(lis)>>), base_path)
        \/ \E n \in 0..MaxKids : \E lis \in [1..n -> MidLis] :
           \E label \in {<<>>, <<Link(Some(HrefX), <<"A">>)>>} :
              tocIn = TocInput("nav", NavXml(<<Ol(<<Li(label \o <<Ol(lis)>>)>>)>>),
                               base_path)

\* <navPoint>s: with or without a label, a <content> and its src
FlatNavPoints ==
    {NavPoint(label \o content) :
        label \in {<<>>, <<NavLabel(<<" ", "A">>)>>},
        content \in {<<>>, <<Content(None)>>, <<Content(Some(HrefX))>>}}
LeafNavPoints == {NavPoint(<<NavLabel(<<"A">>), Content(Some(HrefX))>>)}
MidNavPoints ==
    {NavPoint(<<Content(Some(HrefY))>> \o nps) :
        nps \in SeqsUpTo(LeafNavPoints, MaxKids)}

BrokenNcxDocs == {MalformedDoc, XmlDoc(Elem("ncx", NoAttrs, <<>>))}

\* the NCX documents Toc::from_ncx is applied to
InitNcx ==
    \E base_path \in BasePaths :
        \/ \E doc \in BrokenNcxDocs \cup {FacadeNcx} :
              tocIn = TocInput("ncx", doc, base_path)
        \/ \E n \in 0..MaxKids : \E nps \in [1..n -> FlatNavPoints] :
              tocIn = TocInput("ncx", NcxXml(nps), base_path)
        \/ \E n \in 0..MaxKids : \E nps \in [1..n -> MidNavPoints] :
              tocIn = TocInput("ncx",
                               NcxXml(<<NavPoint(<<Content(Some(HrefX))>> \o nps)>>),
                               base_path)

\* the characters of a text: two kinds of whitespace and a letter
TextAlphabet == {" ", "\t", "a"}

\* an <a> whose text is `chars`, the first k characters as its own text node
\* and the rest inside a nested <span> (an XML text node is never empty)
SplitText(chars, k) ==
    Elem("a", NoAttrs,
         (IF k > 0 THEN <<TextNode(SubSeq(chars, 1, k))>> ELSE <<>>)
         \o (IF k < Len(chars) THEN <<Span(SubSeq(chars, k + 1, Len(chars)))>>
             ELSE <<>>))

\* the nodes text_norm is applied to
InitText ==
    \E n \in 0..MaxText : \E chars \in [1..n -> TextAlphabet] : \E k \in 0..n :
        textIn = Some(SplitText(chars, k))

\* full-path values: empty, at the archive root, one and two directories
\* down, and with a leading slash
FullPaths ==
    {<<>>, <<"c">>, <<"e", "/", "c">>, <<"e", "/", "f", "/", "c">>, <<"/", "c">>}

RootFileElem(attrs, kids) == Elem("rootfile", attrs, kids)

\* what a container document may hold: <rootfile>s with and without a
\* full-path, in a namespace, nested in one another or in another element,
\* and an element of another name that carries a full-path
ContainerSlots ==
    {RootFileElem("full-path" :> full_path, <<>>) : full_path \in FullPaths}
    \cup {RootFileElem(NoAttrs, <<>>),
          RootFileElem("media-type" :> "m", <<>>),
          ElemNs("urn", "rootfile", "full-path" :> <<"n", "/", "c">>, <<>>),
          Elem("link", "full-path" :> <<"l", "/", "c">>, <<>>),
          RootFileElem("full-path" :> <<"o", "/", "c">>,
                       <<RootFileElem("full-path" :> <<"i", "/", "c">>, <<>>)>>),
          Elem("rootfiles", NoAttrs,
               <<RootFileElem(NoAttrs, <<>>),
                 RootFileElem("full-path" :> <<"w", "/", "c">>, <<>>)>>)}

\* the documents Container::from is applied to
InitContainer ==
    \/ containerIn = Some(MalformedDoc)
    \/ \E n \in 0..MaxRootFiles : \E slots \in [1..n -> ContainerSlots] :
       \E root \in {Elem("container", NoAttrs, slots),
                    Elem("rootfile", "full-path" :> <<"r", "/", "c">>, slots)} :
          containerIn = Some(XmlDoc(root))

InitParse ==
    /\ archive = <<>>
    /\ metaOut = None
    /\ resOut = None
    /\ pkgOut = None
    /\ tocOut = None
    /\ textOut = None
    /\ containerOut = None
    /\ \/ InitPackage /\ tocIn = None /\ textIn = None /\ containerIn = None
       \/ (InitNavDoc \/ InitNcx) /\ pkgIn = None /\ textIn = None /\ containerIn = None
       \/ InitText /\ pkgIn = None /\ tocIn = None /\ containerIn = None
       \/ InitContainer /\ pkgIn = None /\ tocIn = None /\ textIn = None

PkgIn == Unwrap(pkgIn)
TocIn == Unwrap(tocIn)

FromPackage ==
    /\ IsSome(pkgIn)
    /\ pkgOut' = Some([result |-> PackageDocumentFrom(PkgIn.doc, PkgIn.base_path),
                       locals |-> PackageLocals(PkgIn.doc, PkgIn.base_path)])
    /\ UNCHANGED <<archive, metaOut, resOut, pkgIn, tocIn, tocOut,
                   textIn, textOut, containerIn, containerOut>>

FromNavDoc ==
    /\ IsSome(tocIn)
    /\ TocIn.kind = "nav"
    /\ tocOut' = Some(from_nav_doc(TocIn.doc, TocIn.base_path))
    /\ UNCHANGED <<archive, metaOut, resOut, pkgIn, pkgOut, tocIn,
                   textIn, textOut, containerIn, containerOut>>

FromNcx ==
    /\ IsSome(tocIn)
    /\ TocIn.kind = "ncx"
    /\ tocOut' = Some(from_ncx(TocIn.doc, TocIn.base_path))
    /\ UNCHANGED <<archive, metaOut, resOut, pkgIn, pkgOut, tocIn,
                   textIn, textOut, containerIn, containerOut>>

TextNorm ==
    /\ IsSome(textIn)
    /\ textOut' = Some(text_norm(Unwrap(textIn)))
    /\ UNCHANGED <<archive, metaOut, resOut, pkgIn, pkgOut, tocIn, tocOut,
                   textIn, containerIn, containerOut>>

FromContainer ==
    /\ IsSome(containerIn)
    /\ containerOut' = Some(ContainerFrom(Unwrap(containerIn)))
    /\ UNCHANGED <<archive, metaOut, resOut, pkgIn, pkgOut, tocIn, tocOut,
                   textIn, textOut, containerIn>>

NextParse == FromPackage \/ FromNavDoc \/ FromNcx \/ TextNorm \/ FromContainer

SpecParse == InitParse /\ [][NextParse]_vars

-----------------------------------------------------------------------------
(* Claims about the parsers, checked under SpecParse *)

PkgParsed == IsSome(pkgOut) /\ Unwrap(pkgOut).result.ok
PkgDoc == Unwrap(pkgOut).result.val
PkgLocals == Unwrap(Unwrap(pkgOut).locals)
ById == PkgLocals.manifest.manifest_by_id
ByPath == PkgLocals.manifest.manifest_by_path

\* the <item> children of <manifest> and the children of <spine> in the input
ItemsIn == FilterChildren(Unwrap(FindChild(PkgIn.doc.root, "manifest")), "item")
SpineIn == Unwrap(FindChild(PkgIn.doc.root, "spine"))
ItemPath(i) == FormatPath(PkgIn.base_path, ItemsIn[i].attrs["href"])

\* the items that carry both id and href
Indexed ==
    {i \in 1..Len(ItemsIn) : HasAttribute(ItemsIn[i], "id") /\ HasAttribute(ItemsIn[i], "href")}
Last(S) == CHOOSE i \in S : \A j \in S : j <= i

\* the children of <spine> that are <itemref>s with an idref the manifest knows
Resolvable ==
    {i \in 1..Len(SpineIn.kids) :
        /\ SpineIn.kids[i].tag = "itemref"
        /\ "idref" \in DOMAIN SpineIn.kids[i].attrs
        /\ SpineIn.kids[i].attrs["idref"] \in DOMAIN ById}

\* C5: the spine is, in document order, manifest_by_id[idref] over the
\* <itemref> children of <spine> whose idref is present and a manifest id; the
\* others are dropped, so its length is the number of resolvable itemrefs and
\* a repeated idref gives a repeated entry.
C5_SpineResolvesInOrder ==
    PkgParsed =>
        /\ Len(PkgDoc.spine) = Cardinality(Resolvable)
        /\ \A i \in Resolvable :
              PkgDoc.spine[Cardinality({j \in Resolvable : j <= i})]
                 = ById[SpineIn.kids[i].attrs["idref"]]

\* an itemref is dropped between two that are kept and resolve differently
C5_Witness ==
    /\ PkgParsed
    /\ Resolvable = {1, 3}
    /\ Len(PkgDoc.spine) = 2
    /\ PkgDoc.spine[1] # PkgDoc.spine[2]

\* the hrefs of all TocNodes of a tree
RECURSIVE TocHrefs(_)
TocHrefs(nodes) ==
    UNION {(IF IsSome(nodes[i].href) THEN {Unwrap(nodes[i].href)} ELSE {})
           \cup (IF IsSome(nodes[i].children) THEN TocHrefs(Unwrap(nodes[i].children))
                 ELSE {}) : i \in 1..Len(nodes)}

TocParsed == IsSome(tocOut) /\ Unwrap(tocOut).ok
TocContents == Unwrap(tocOut).val.contents
UnderBase(base_path, paths) ==
    \A path \in paths : IsPrefix(base_path \o <<Slash>>, path)

\* C6: everything PackageDocument::from and the TOC parsers produce as a path
\* starts with the base path they were given followed by "/": the spine
\* elements, the manifest keys, cover_image_path, toc_ncx_path,
\* toc_nav_doc_path, and the href of every TocNode at any depth.
C6_PathsUnderBase ==
    /\ PkgParsed =>
          UnderBase(PkgIn.base_path,
                    Range(PkgDoc.spine) \cup (DOMAIN PkgDoc.manifest)
                       \cup Range(PkgDoc.cover_image_path)
                       \cup Range(PkgDoc.toc_ncx_path)
                       \cup Range(PkgDoc.toc_nav_doc_path))
    /\ TocParsed => UnderBase(TocIn.base_path, TocHrefs(TocContents))

\* an NCX whose nested navPoint has an href
C6_Witness ==
    /\ TocParsed
    /\ TocIn.kind = "ncx"
    /\ \E i \in 1..Len(TocContents) :
          /\ IsSome(TocContents[i].children)
          /\ \E j \in 1..Len(Unwrap(TocContents[i].children)) :
                IsSome(Unwrap(TocContents[i].children)[j].href)

\* all TocNodes of a tree
RECURSIVE TocNodes(_)
TocNodes(nodes) ==
    UNION {{nodes[i]}
           \cup (IF IsSome(nodes[i].children) THEN TocNodes(Unwrap(nodes[i].children))
                 ELSE {}) : i \in 1..Len(nodes)}

\* the top-level <li> / <navPoint> elements of the input
TopEntriesIn ==
    IF TocIn.kind = "nav"
    THEN FilterChildren(
            Unwrap(FindChild(Unwrap(FindTocNav(Descendants(TocIn.doc.root), 1)), "ol")),
            "li")
    ELSE FilterChildren(Unwrap(FindByTag(Descendants(TocIn.doc.root), "navMap", 1)),
                        "navPoint")
NestedEntries(elem) ==
    IF TocIn.kind = "nav"
    THEN IF IsSome(FindChild(elem, "ol"))
         THEN FilterChildren(Unwrap(FindChild(elem, "ol")), "li") ELSE <<>>
    ELSE FilterChildren(elem, "navPoint")

\* C7: the children of a TocNode, at any depth and from either parser, are
\* none or a non-empty sequence, and none exactly when the <li> has no <li>
\* in a nested <ol> / the <navPoint> has no nested <navPoint>.
C7_ChildrenNoneOrNonEmpty ==
    TocParsed =>
        /\ \A node \in TocNodes(TocContents) : node.children # Some(<<>>)
        /\ \A i \in 1..Len(TocContents) :
              IsNone(TocContents[i].children) <=> NestedEntries(TopEntriesIn[i]) = <<>>

\* C8 as claimed: after parse_manifest the values of manifest_by_id are the
\* keys of manifest_by_path, and manifest_by_id has at most as many entries
\* as there are items with both id and href.
C8_SameImage ==
    PkgParsed =>
        /\ MapValues(ById) = DOMAIN ByPath
        /\ Cardinality(DOMAIN ById) <= Cardinality(Indexed)

\* the items that are the last to carry their id
LastOfId == {i \in Indexed : \A j \in Indexed :
                ItemsIn[j].attrs["id"] = ItemsIn[i].attrs["id"] => j <= i}

\* C8 as amended: the keys of manifest_by_path are the paths of all items with
\* id and href, the values of manifest_by_id are the paths of those that are
\* the last to carry their id; so the values are among the keys, the two sets
\* are equal when no id is repeated with another href, and manifest_by_id has
\* at most as many entries as there are items with both id and href.
C8_ValuesAmongKeys ==
    PkgParsed =>
        /\ DOMAIN ByPath = {ItemPath(i) : i \in Indexed}
        /\ MapValues(ById) = {ItemPath(i) : i \in LastOfId}
        /\ MapValues(ById) \subseteq DOMAIN ByPath
        /\ (\A i, j \in Indexed :
               ItemsIn[i].attrs["id"] = ItemsIn[j].attrs["id"] => ItemPath(i) = ItemPath(j))
              => MapValues(ById) = DOMAIN ByPath
        /\ Cardinality(DOMAIN ById) <= Cardinality(Indexed)

\* one id on two items with different hrefs: the first path stays a key only
C8_Witness ==
    /\ PkgParsed
    /\ \E i, j \in Indexed :
          /\ i < j
          /\ ItemsIn[i].attrs["id"] = ItemsIn[j].attrs["id"]
          /\ ItemPath(i) # ItemPath(j)
    /\ MapValues(ById) # DOMAIN ByPath

\* the items with id "ncx" and an href
NcxItems == {i \in Indexed : ItemsIn[i].attrs["id"] = "ncx"}

\* C9: toc_ncx_path is set exactly when <spine toc=".."> is the literal "ncx"
\* and the manifest has an item with id "ncx" and an href, and it is then
\* manifest_by_id["ncx"] (the path of the last such item); any other toc
\* value, the id of a manifest item included, or no toc attribute gives none.
C9_NcxPathOnlyForLiteralNcx ==
    PkgParsed =>
        /\ IsSome(PkgDoc.toc_ncx_path)
              <=> (Attribute(SpineIn, "toc") = Some("ncx") /\ NcxItems # {})
        /\ IsSome(PkgDoc.toc_ncx_path) =>
              /\ Unwrap(PkgDoc.toc_ncx_path) = ById["ncx"]
              /\ Unwrap(PkgDoc.toc_ncx_path) = ItemPath(Last(NcxItems))

\* toc names a manifest item that is not "ncx", and toc_ncx_path is none
C9_Witness ==
    /\ PkgParsed
    /\ HasAttribute(SpineIn, "toc")
    /\ SpineIn.attrs["toc"] # "ncx"
    /\ SpineIn.attrs["toc"] \in DOMAIN ById
    /\ NcxItems # {}
    /\ IsNone(PkgDoc.toc_ncx_path)

\* the path of the last item with this properties value and an href
LastWithProperty(value) ==
    LET S == {i \in 1..Len(ItemsIn) :
                /\ Attribute(ItemsIn[i], "properties") = Some(value)
                /\ HasAttribute(ItemsIn[i], "href")}
    IN  IF S = {} THEN None ELSE Some(ItemPath(Last(S)))

\* C10: cover_image_path (toc_nav_doc_path) is "{base}/{href}" of the last
\* item whose properties is exactly "cover-image" ("nav") and which has an
\* href, none if there is no such item; an item with the properties value but
\* no href leaves an earlier value alone, and an item without id can set it.
C10_LastItemWithHref ==
    PkgParsed =>
        /\ PkgDoc.cover_image_path = LastWithProperty("cover-image")
        /\ PkgDoc.toc_nav_doc_path = LastWithProperty("nav")

-----------------------------------------------------------------------------
(* text_norm *)

TextDone == IsSome(textOut)
TextGiven == collect_text(Unwrap(textIn))
Normalized == Unwrap(textOut)

\* positions of `chars` where two whitespace characters stand side by side
WhitespacePairs(chars) ==
    {i \in 1..(Len(chars) - 1) : chars[i] \in Whitespace /\ chars[i + 1] \in Whitespace}

\* C11: text_norm is idempotent: normalising its output again (trim, then
\* collapse the whitespace runs), as a string or as the text of a node, gives
\* the output back; and the output neither starts nor ends with whitespace
\* nor holds two whitespace characters side by side.
C11_TextNormIdempotent ==
    TextDone =>
        /\ NormalizeText(Normalized) = Normalized
        /\ Normalized # <<>> => text_norm(TextNode(Normalized)) = Normalized
        /\ Normalized # <<>> =>
              /\ Head(Normalized) \notin Whitespace
              /\ Normalized[Len(Normalized)] \notin Whitespace
        /\ WhitespacePairs(Normalized) = {}

\* a text with whitespace at both ends and a run of a tab and a space inside,
\* spread over two text nodes, normalised to "a a"
C11_Witness ==
    /\ TextDone
    /\ Len(Unwrap(textIn).kids) = 2
    /\ Head(TextGiven) \in Whitespace
    /\ TextGiven[Len(TextGiven)] \in Whitespace
    /\ \E i \in WhitespacePairs(TextGiven) :
          /\ TextGiven[i] = "\t"
          /\ \E j \in 1..(i - 1) : TextGiven[j] \notin Whitespace
          /\ \E j \in (i + 2)..Len(TextGiven) : TextGiven[j] \notin Whitespace
    /\ Normalized = <<"a", " ", "a">>

-----------------------------------------------------------------------------
(* Container::from *)

ContainerDone == IsSome(containerOut)
ContainerParsed == ContainerDone /\ Unwrap(containerOut).ok
RootFiles == Unwrap(containerOut).val.root_files

\* the elements of the document named rootfile (in any namespace) that carry
\* a full-path, in document order
Retained ==
    SelectSeq(Descendants(Unwrap(containerIn).root),
              LAMBDA node : node.tag = "rootfile" /\ "full-path" \in DOMAIN node.attrs)

\* a path up to the slash before its final segment: empty when there is no
\* slash, the root when the only slash leads the path
WithoutFinalSegment(path) ==
    LET slashes == {i \in 1..Len(path) : path[i] = Slash}
    IN  IF slashes = {} THEN <<>>
        ELSE IF Last(slashes) = 1 THEN <<Slash>>
        ELSE SubSeq(path, 1, Last(slashes) - 1)

\* C12: Container::from fails only on a document that is not well-formed,
\* and otherwise returns, in document order, one RootFile per element named
\* rootfile that carries a full-path (none of them is a successful empty
\* result); its full_path is the attribute value and its base_path is the
\* full_path without its final segment, empty for an OPF at the archive root.
C12_RootFilePerRootfileElement ==
    ContainerDone =>
        /\ Unwrap(containerOut).ok <=> Unwrap(containerIn).wellformed
        /\ ContainerParsed =>
              /\ Len(RootFiles) = Len(Retained)
              /\ \A i \in 1..Len(RootFiles) :
                    /\ RootFiles[i].full_path = Retained[i].attrs["full-path"]
                    /\ RootFiles[i].base_path =
                          WithoutFinalSegment(RootFiles[i].full_path)
                    /\ Slash \notin Range(RootFiles[i].full_path)
                          => RootFiles[i].base_path = <<>>

\* a document with a <rootfile> that has no full-path, a <rootfile> nested
\* in another, and an OPF at the archive root after one in a directory
C12_Witness ==
    /\ ContainerParsed
    /\ \E node \in Range(Descendants(Unwrap(containerIn).root)) :
          node.tag = "rootfile" /\ "full-path" \notin DOMAIN node.attrs
    /\ Len(RootFiles) = 3
    /\ RootFiles[1] = [base_path |-> <<"r">>, full_path |-> <<"r", "/", "c">>]
    /\ RootFiles[2].base_path = <<"w">>
    /\ RootFiles[3] = [base_path |-> <<>>, full_path |-> <<"c">>]

-----------------------------------------------------------------------------
(* nav_doc::parse *)

\* the direct children of an element that are elements so named
ChildrenNamed(elem, name) == SelectSeq(elem.kids, LAMBDA node : node.tag = name)

\* the <nav id="toc"> elements of the nav-doc, in document order
TocNavs ==
    SelectSeq(Descendants(TocIn.doc.root),
              LAMBDA node : /\ node.tag = "nav"
                            /\ "id" \in DOMAIN node.attrs
                            /\ node.attrs["id"] = "toc")

\* the <li>s one level below an element: those of its first direct <ol>
LisBelow(elem) ==
    IF ChildrenNamed(elem, "ol") = <<>> THEN <<>>
    ELSE ChildrenNamed(ChildrenNamed(elem, "ol")[1], "li")

\* the title and href an <li> is to give
LiTitle(li) ==
    IF ChildrenNamed(li, "a") # <<>> THEN text_norm(ChildrenNamed(li, "a")[1])
    ELSE IF ChildrenNamed(li, "span") # <<>> THEN text_norm(ChildrenNamed(li, "span")[1])
    ELSE <<>>
LiHref(li, base_path) ==
    IF ChildrenNamed(li, "a") # <<>> /\ "href" \in DOMAIN ChildrenNamed(li, "a")[1].attrs
    THEN Some(base_path \o <<"/">> \o ChildrenNamed(li, "a")[1].attrs["href"])
    ELSE None

\* the TocNodes stand for the <li>s one by one, and so on below each
RECURSIVE LisGive(_, _, _)
LisGive(lis, nodes, base_path) ==
    /\ Len(nodes) = Len(lis)
    /\ \A i \in 1..Len(lis) :
          /\ nodes[i].title = LiTitle(lis[i])
          /\ nodes[i].href = LiHref(lis[i], base_path)
          /\ LisGive(LisBelow(lis[i]),
                     IF IsSome(nodes[i].children) THEN Unwrap(nodes[i].children) ELSE <<>>,
                     base_path)

\* C13: the nav-doc parser returns one TocNode per direct <li> of the first
\* direct <ol> of the first <nav id="toc">, in document order; for each <li>,
\* at any depth, the title is text_norm of its first direct <a> if it has
\* one, else of its first direct <span>, else empty, and the href is
\* "{base}/{href}" of that first <a> when it has an href, else none.  An <a>
\* wins over a <span> whichever comes first.
C13_NavDocEntries ==
    (TocParsed /\ TocIn.kind = "nav") =>
        /\ TocNavs # <<>>
        /\ ChildrenNamed(TocNavs[1], "ol") # <<>>
        /\ LisGive(LisBelow(TocNavs[1]), TocContents, TocIn.base_path)

\* two <li>s, one of them with a <span> before its <a>: it takes title and
\* href from the <a>
C13_Witness ==
    /\ TocParsed
    /\ TocIn.kind = "nav"
    /\ Len(TocContents) = 2
    /\ \E i \in 1..2 :
          /\ Len(LisBelow(TocNavs[1])[i].kids) = 2
          /\ LisBelow(TocNavs[1])[i].kids[1].tag = "span"
          /\ LisBelow(TocNavs[1])[i].kids[2].tag = "a"
          /\ TocContents[i].title = <<"A">>
          /\ TocContents[i].href = Some(TocIn.base_path \o <<"/", "y">>)


====
